---- MODULE Spec2Model ----
(***************************************************************************)
(* Model of the file-to-bead reverse index of package correlation          *)
(* (BuildFileIndex, NewFileLookup, LookupByFile, LookupByFileGlob,          *)
(* normalizePath).                                                          *)
(*                                                                          *)
(* Strings are sequences of one-character strings, so that prefix/suffix   *)
(* trimming, separator replacement and glob matching are computed and not  *)
(* assumed.  Timestamps are natural numbers; After is strict >.            *)
(* A Go pointer that may be nil is a sequence of length 0 (nil) or 1.      *)
(***************************************************************************)
EXTENDS Integers, Sequences, FiniteSets, TLC

VARIABLES
    report,      \* *HistoryReport handed to BuildFileIndex/NewFileLookup (<<>> = nil)
    index,       \* fl.index / the result of the first BuildFileIndex
    index2,      \* the result of a second BuildFileIndex on the same report
    beads,       \* fl.beads, the live issue map (aliases report.Histories)
    result,      \* the FileBeadLookupResult of the last lookup
    op,          \* the last operation and its argument
    pc,          \* "start", "ready" (lookup built), "returned", "panic" (nil dereference)
    built,       \* number of BuildFileIndex results held (0, 1, 2)
    path,        \* normalizePath: the input
    normalized,  \* normalizePath: the output
    npc,         \* normalizePath: "in" before the call, "out" after
    hotspots,    \* the []FileHotspot of the last GetHotspots
    allFiles,    \* the []string of the last GetAllFiles
    stats,       \* the FileIndexStats of the last GetStats
    orphan,      \* the orphan detector and its report
    au,          \* appendUnique: the slice, the argument and the slice before
    ack,         \* the ack service: ledger file and last call
    hooks        \* the hook executor: configured hooks, results, last run

vars == <<report, index, index2, beads, result, op, pc, built, path, normalized, npc,
          hotspots, allFiles, stats, orphan, au, ack, hooks>>

\* the values returned by the FileLookup queries other than the lookups
retVars == <<hotspots, allFiles, stats>>

\* the state of the other packages
extVars == <<orphan, au, ack, hooks>>

\* a component that takes no part in the specification at hand
Idle == [pc |-> "idle"]

----------------------------------------------------------------------------
(* Bounds *)

MaxLen == 4        \* longest path handed to normalizePath in SpecNorm
MaxCommits == 2    \* longest commit list of one bead history

----------------------------------------------------------------------------
(* Strings *)

HasPrefix(s, prefix) ==
    Len(s) >= Len(prefix) /\ SubSeq(s, 1, Len(prefix)) = prefix

HasSuffix(s, suffix) ==
    Len(s) >= Len(suffix) /\ SubSeq(s, Len(s) - Len(suffix) + 1, Len(s)) = suffix

TrimPrefix(s, prefix) ==
    IF HasPrefix(s, prefix) THEN SubSeq(s, Len(prefix) + 1, Len(s)) ELSE s

TrimSuffix(s, suffix) ==
    IF HasSuffix(s, suffix) THEN SubSeq(s, 1, Len(s) - Len(suffix)) ELSE s

\* strings.ReplaceAll for a one-character old and new
ReplaceAll(s, old, new) ==
    [i \in 1..Len(s) |-> IF s[i] = old THEN new ELSE s[i]]

normalizePath(p) ==
    LET p1 == ReplaceAll(p, "\\", "/")
        p2 == TrimPrefix(p1, <<".", "/">>)
        p3 == TrimSuffix(p2, <<"/">>)
    IN p3

----------------------------------------------------------------------------
(* Data: characters, paths, commits, reports *)

PathChars == {".", "/", "\\", "a"}

SeqsUpTo(S, n) == UNION {[1..k -> S] : k \in 0..n}

Perms(S) ==
    {s \in [1..Cardinality(S) -> S] : \A i, j \in 1..Cardinality(S) : i # j => s[i] # s[j]}

EmptyMap == <<>>

MapPut(m, k, v) == [x \in DOMAIN m \cup {k} |-> IF x = k THEN v ELSE m[x]]

BeadIDs == {"bv-1", "bv-2"}

Statuses == {"open", "in_progress", "closed"}

Titles == {"Fix login", "Renamed"}

\* The commits the histories are drawn from.  s1 lists one file under two
\* spellings; s2 and s3 carry the same timestamp.
CommitPool ==
    { [ShortSHA |-> "s1", Timestamp |-> 1,
       Files |-> << [Path |-> <<".", "/", "a", "/", "x">>, Insertions |-> 1, Deletions |-> 0],
                    [Path |-> <<"a", "\\", "x">>, Insertions |-> 0, Deletions |-> 2] >>],
      [ShortSHA |-> "s2", Timestamp |-> 2,
       Files |-> << [Path |-> <<"a", "/", "y">>, Insertions |-> 1, Deletions |-> 1] >>],
      [ShortSHA |-> "s3", Timestamp |-> 2,
       Files |-> << [Path |-> <<"a", "/", "x">>, Insertions |-> 2, Deletions |-> 0],
                    [Path |-> <<"b">>, Insertions |-> 1, Deletions |-> 0] >>] }

\* Commit lists of one history: distinct commits, at most MaxCommits
CommitLists ==
    {cs \in SeqsUpTo(CommitPool, MaxCommits) :
        \A i, j \in 1..Len(cs) : i # j => cs[i] # cs[j]}

\* the status of each bead when the report is extracted
ReportStatus == [b \in BeadIDs |-> IF b = "bv-1" THEN "open" ELSE "closed"]

\* BeadHistory of bead b: the fields the file index reads
BeadHistories(b) == [Title : {"Fix login"}, Status : {ReportStatus[b]}, Commits : CommitLists]

\* report.Histories over the beads B
HistoryMaps(B) == {h \in [B -> UNION {BeadHistories(b) : b \in B}] : \A b \in B : h[b] \in BeadHistories(b)}

NilReport == <<>>

\* *HistoryReport: nil, or a pointer to a report with a Histories map
Reports ==
    {NilReport} \cup
    { <<[Histories |-> h]>> : h \in UNION {HistoryMaps(B) : B \in SUBSET BeadIDs} }

----------------------------------------------------------------------------
(* BuildFileIndex *)

After(t, u) == t > u

\* the found check left out: every occurrence appends
shaFoundNever(shas, sha) == FALSE

\* the loop over ref.CommitSHAs that sets found
shaFound(shas, sha) == \E i \in 1..Len(shas) : shas[i] = sha

\* the loop body for one changed file of one commit of one bead
Upsert(fileBeadMap, beadID, history, commit, file) ==
    LET normalizedPath == normalizePath(file.Path)
        beadMap == IF normalizedPath \in DOMAIN fileBeadMap
                   THEN fileBeadMap[normalizedPath] ELSE EmptyMap
        ref == IF beadID \in DOMAIN beadMap
               THEN beadMap[beadID]
               ELSE [BeadID |-> beadID, Title |-> history.Title, Status |-> history.Status,
                     CommitSHAs |-> <<>>, LastTouch |-> commit.Timestamp, TotalChanges |-> 0]
        shas == IF shaFound(ref.CommitSHAs, commit.ShortSHA)
                THEN ref.CommitSHAs ELSE Append(ref.CommitSHAs, commit.ShortSHA)
        touch == IF After(commit.Timestamp, ref.LastTouch)
                 THEN commit.Timestamp ELSE ref.LastTouch
        ref2 == [ref EXCEPT !.CommitSHAs = shas, !.LastTouch = touch,
                            !.TotalChanges = @ + file.Insertions + file.Deletions]
    IN MapPut(fileBeadMap, normalizedPath, MapPut(beadMap, beadID, ref2))

RECURSIVE AccumulateFiles(_, _, _, _, _)
AccumulateFiles(fileBeadMap, beadID, history, commit, files) ==
    IF files = <<>> THEN fileBeadMap
    ELSE AccumulateFiles(Upsert(fileBeadMap, beadID, history, commit, Head(files)),
                         beadID, history, commit, Tail(files))

RECURSIVE AccumulateCommits(_, _, _, _)
AccumulateCommits(fileBeadMap, beadID, history, commits) ==
    IF commits = <<>> THEN fileBeadMap
    ELSE AccumulateCommits(AccumulateFiles(fileBeadMap, beadID, history, Head(commits), Head(commits).Files),
                           beadID, history, Tail(commits))

\* range report.Histories, visited in the order beadOrder
RECURSIVE AccumulateHistories(_, _, _)
AccumulateHistories(fileBeadMap, histories, beadOrder) ==
    IF beadOrder = <<>> THEN fileBeadMap
    ELSE AccumulateHistories(
            AccumulateCommits(fileBeadMap, Head(beadOrder), histories[Head(beadOrder)],
                              histories[Head(beadOrder)].Commits),
            histories, Tail(beadOrder))

\* the comparison with its operands swapped (earliest first)
lessLastTouchSwapped(a, b) == After(b.LastTouch, a.LastTouch)

\* the comparison handed to sort.Slice
lessLastTouch(a, b) == After(a.LastTouch, b.LastTouch)

\* sort.Slice on a short slice: insertion sort, each element moved left
\* while it is less than its left neighbour
RECURSIVE insertLeft(_, _)
insertLeft(sorted, x) ==
    IF sorted # <<>> /\ lessLastTouch(x, sorted[Len(sorted)])
    THEN Append(insertLeft(SubSeq(sorted, 1, Len(sorted) - 1), x), sorted[Len(sorted)])
    ELSE Append(sorted, x)

RECURSIVE sortSlice(_)
sortSlice(refs) ==
    IF refs = <<>> THEN <<>>
    ELSE insertLeft(sortSlice(SubSeq(refs, 1, Len(refs) - 1)), refs[Len(refs)])

\* refs of one file: range beadMap in the order refOrder, then sorted
refsOf(beadMap, refOrder) ==
    LET present == SelectSeq(refOrder, LAMBDA b : b \in DOMAIN beadMap)
    IN sortSlice([i \in 1..Len(present) |-> beadMap[present[i]]])

\* the multi-bead test off by one
countsMultipleFromOne(refs) == Len(refs) >= 1

countsMultiple(refs) == Len(refs) > 1

\* totalLinks and multipleBeadsCount accumulated over range fileBeadMap
RECURSIVE totals(_, _)
totals(fileToBeads, paths) ==
    IF paths = {} THEN [links |-> 0, multiple |-> 0]
    ELSE LET fp == CHOOSE q \in paths : TRUE
             rest == totals(fileToBeads, paths \ {fp})
         IN [links |-> rest.links + Len(fileToBeads[fp]),
             multiple |-> rest.multiple + (IF countsMultiple(fileToBeads[fp]) THEN 1 ELSE 0)]

\* &FileBeadIndex{FileToBeads: make(...)}: Stats is the zero value
EmptyIndex ==
    [FileToBeads |-> EmptyMap,
     Stats |-> [TotalFiles |-> 0, TotalBeadLinks |-> 0, FilesWithMultipleBeads |-> 0]]

\* the part of BuildFileIndex after the nil check; beadOrder and refOrder are
\* the iteration orders of the two maps
buildFrom(histories, beadOrder, refOrder) ==
    LET fileBeadMap == AccumulateHistories(EmptyMap, histories, beadOrder)
        fileToBeads == [fp \in DOMAIN fileBeadMap |-> refsOf(fileBeadMap[fp], refOrder[fp])]
        t == totals(fileToBeads, DOMAIN fileToBeads)
    IN [FileToBeads |-> fileToBeads,
        Stats |-> [TotalFiles |-> Cardinality(DOMAIN fileToBeads),
                   TotalBeadLinks |-> t.links,
                   FilesWithMultipleBeads |-> t.multiple]]

\* the nil check left out
isNilReportUnchecked(r) == FALSE

\* if report == nil
isNilReport(r) == r = NilReport

\* paths an index over the commit pool can hold
IndexedPaths == UNION {{normalizePath(c.Files[i].Path) : i \in 1..Len(c.Files)} : c \in CommitPool}

----------------------------------------------------------------------------
(* filepath.Match as called by LookupByFileGlob (Separator is "/") *)

Separator == "/"

\* byte order of the characters that occur in paths and patterns
Ascii == <<"*", "-", ".", "/", "?", "[", "\\", "]", "^", "a", "b", "x", "y">>

Code(c) == CHOOSE i \in 1..Len(Ascii) : Ascii[i] = c

BadPattern == [r |-> "", rest |-> <<>>, err |-> TRUE]

\* getEsc: one possibly escaped character of a character class
getEsc(chunk) ==
    IF chunk = <<>> \/ chunk[1] = "-" \/ chunk[1] = "]" THEN BadPattern
    ELSE LET c == IF chunk[1] = "\\" THEN Tail(chunk) ELSE chunk
         IN IF c = <<>> \/ Len(c) = 1 THEN BadPattern
            ELSE [r |-> c[1], rest |-> Tail(c), err |-> FALSE]

\* the loop "parse all ranges" of matchChunk; r is "" once the match failed
RECURSIVE parseRanges(_, _, _, _)
parseRanges(chunk, r, nrange, match) ==
    IF chunk # <<>> /\ chunk[1] = "]" /\ nrange > 0
    THEN [match |-> match, rest |-> Tail(chunk), err |-> FALSE]
    ELSE LET lo == getEsc(chunk)
         IN IF lo.err THEN [match |-> FALSE, rest |-> <<>>, err |-> TRUE]
            ELSE LET hi == IF lo.rest[1] = "-" THEN getEsc(Tail(lo.rest)) ELSE lo
                 IN IF hi.err THEN [match |-> FALSE, rest |-> <<>>, err |-> TRUE]
                    ELSE parseRanges(hi.rest, r, nrange + 1,
                            match \/ (r # "" /\ Code(lo.r) <= Code(r) /\ Code(r) <= Code(hi.r)))

RECURSIVE matchChunkFrom(_, _, _)
matchChunkFrom(chunk, s, wasFailed) ==
    IF chunk = <<>>
    THEN IF wasFailed THEN [rest |-> <<>>, ok |-> FALSE, err |-> FALSE]
                      ELSE [rest |-> s, ok |-> TRUE, err |-> FALSE]
    ELSE LET failed == wasFailed \/ s = <<>>
             s1 == IF failed THEN s ELSE Tail(s)
         IN IF chunk[1] = "["
            THEN LET negated == Len(chunk) > 1 /\ chunk[2] = "^"
                     body == IF negated THEN SubSeq(chunk, 3, Len(chunk)) ELSE Tail(chunk)
                     cl == parseRanges(body, IF failed THEN "" ELSE s[1], 0, FALSE)
                 IN IF cl.err THEN [rest |-> <<>>, ok |-> FALSE, err |-> TRUE]
                    ELSE matchChunkFrom(cl.rest, s1, failed \/ (cl.match = negated))
            ELSE IF chunk[1] = "?"
            THEN matchChunkFrom(Tail(chunk), s1, failed \/ s[1] = Separator)
            ELSE LET lit == IF chunk[1] = "\\" THEN Tail(chunk) ELSE chunk
                 IN IF lit = <<>> THEN [rest |-> <<>>, ok |-> FALSE, err |-> TRUE]
                    ELSE matchChunkFrom(Tail(lit), s1, failed \/ lit[1] # s[1])

matchChunk(chunk, s) == matchChunkFrom(chunk, s, FALSE)

\* scanChunk: the index one past the chunk that starts at pattern[i]
RECURSIVE chunkEnd(_, _, _)
chunkEnd(pattern, i, inrange) ==
    IF i > Len(pattern) THEN i
    ELSE IF pattern[i] = "\\" THEN chunkEnd(pattern, (IF i + 1 <= Len(pattern) THEN i + 2 ELSE i + 1), inrange)
    ELSE IF pattern[i] = "[" THEN chunkEnd(pattern, i + 1, TRUE)
    ELSE IF pattern[i] = "]" THEN chunkEnd(pattern, i + 1, FALSE)
    ELSE IF pattern[i] = "*" /\ ~inrange THEN i
    ELSE chunkEnd(pattern, i + 1, inrange)

RECURSIVE skipStars(_)
skipStars(pattern) ==
    IF pattern # <<>> /\ pattern[1] = "*" THEN skipStars(Tail(pattern)) ELSE pattern

scanChunk(pattern) ==
    LET p == skipStars(pattern)
        e == chunkEnd(p, 1, FALSE)
    IN [star |-> pattern # <<>> /\ pattern[1] = "*",
        chunk |-> SubSeq(p, 1, e - 1),
        rest |-> SubSeq(p, e, Len(p))]

\* the check that the unmatched rest of the pattern is well-formed
RECURSIVE restIsBad(_)
restIsBad(pattern) ==
    IF pattern = <<>> THEN FALSE
    ELSE LET sc == scanChunk(pattern)
         IN matchChunk(sc.chunk, <<>>).err \/ restIsBad(sc.rest)

\* the loop "look for match skipping i+1 bytes": the outcome at offset i
RECURSIVE skipMatch(_, _, _, _)
skipMatch(chunk, rest, name, i) ==
    IF ~(i < Len(name) /\ name[i + 1] # Separator)
    THEN [found |-> FALSE, name |-> <<>>, err |-> FALSE]
    ELSE LET m == matchChunk(chunk, SubSeq(name, i + 2, Len(name)))
         IN IF m.ok
            THEN IF rest = <<>> /\ m.rest # <<>>
                 THEN skipMatch(chunk, rest, name, i + 1)
                 ELSE [found |-> TRUE, name |-> m.rest, err |-> FALSE]
            ELSE IF m.err THEN [found |-> FALSE, name |-> <<>>, err |-> TRUE]
            ELSE skipMatch(chunk, rest, name, i + 1)

RECURSIVE Match(_, _)
Match(pattern, name) ==
    IF pattern = <<>> THEN [matched |-> name = <<>>, err |-> FALSE]
    ELSE LET sc == scanChunk(pattern)
             m == matchChunk(sc.chunk, name)
             sk == IF sc.star THEN skipMatch(sc.chunk, sc.rest, name, 0)
                   ELSE [found |-> FALSE, name |-> <<>>, err |-> FALSE]
         IN IF sc.star /\ sc.chunk = <<>>
            THEN [matched |-> \A k \in 1..Len(name) : name[k] # Separator, err |-> FALSE]
            ELSE IF m.ok /\ (m.rest = <<>> \/ sc.rest # <<>>) THEN Match(sc.rest, m.rest)
            ELSE IF m.err THEN [matched |-> FALSE, err |-> TRUE]
            ELSE IF sk.found THEN Match(sc.rest, sk.name)
            ELSE IF sk.err THEN [matched |-> FALSE, err |-> TRUE]
            ELSE [matched |-> FALSE, err |-> restIsBad(sc.rest)]

----------------------------------------------------------------------------
(* FileLookup *)

\* refresh that keeps the status and title recorded at build time
refreshStale(ref, live) == ref

\* "Get current status from beads map (may have changed)"
refresh(ref, live) ==
    IF ref.BeadID \in DOMAIN live
    THEN [ref EXCEPT !.Status = live[ref.BeadID].Status, !.Title = live[ref.BeadID].Title]
    ELSE ref

\* the bucket test written as "not open"
isClosedNotOpen(ref) == ref.Status # "open"

\* ref.Status == "closed"
isClosed(ref) == ref.Status = "closed"

\* the duplicate check left out
containsBeadRefNever(refs, beadID) == FALSE

containsBeadRef(refs, beadID) == \E i \in 1..Len(refs) : refs[i].BeadID = beadID

emptyResult(filePath) ==
    [FilePath |-> filePath, OpenBeads |-> <<>>, ClosedBeads |-> <<>>, TotalBeads |-> 0]

\* the exact-match loop over refs
RECURSIVE bucketExact(_, _, _)
bucketExact(res, refs, live) ==
    IF refs = <<>> THEN res
    ELSE LET ref == refresh(Head(refs), live)
         IN bucketExact(IF isClosed(ref)
                        THEN [res EXCEPT !.ClosedBeads = Append(@, ref)]
                        ELSE [res EXCEPT !.OpenBeads = Append(@, ref)],
                        Tail(refs), live)

\* the loop over the refs of one file of a directory
RECURSIVE bucketUnique(_, _, _)
bucketUnique(res, refs, live) ==
    IF refs = <<>> THEN res
    ELSE LET ref == refresh(Head(refs), live)
         IN bucketUnique(IF isClosed(ref)
                         THEN IF ~containsBeadRef(res.ClosedBeads, ref.BeadID)
                              THEN [res EXCEPT !.ClosedBeads = Append(@, ref)] ELSE res
                         ELSE IF ~containsBeadRef(res.OpenBeads, ref.BeadID)
                              THEN [res EXCEPT !.OpenBeads = Append(@, ref)] ELSE res,
                         Tail(refs), live)

\* strings.HasPrefix(filePath, normalizedPath+"/") || ...+"\\"
underDirectory(filePath, normalizedPath) ==
    \/ HasPrefix(filePath, normalizedPath \o <<"/">>)
    \/ HasPrefix(filePath, normalizedPath \o <<"\\">>)

\* range fl.index.FileToBeads in the order fileOrder
RECURSIVE bucketPrefix(_, _, _, _, _)
bucketPrefix(res, fileToBeads, fileOrder, normalizedPath, live) ==
    IF fileOrder = <<>> THEN res
    ELSE bucketPrefix(IF underDirectory(Head(fileOrder), normalizedPath)
                      THEN bucketUnique(res, fileToBeads[Head(fileOrder)], live) ELSE res,
                      fileToBeads, Tail(fileOrder), normalizedPath, live)

lookupByFile(idx, live, p, fileOrder) ==
    LET normalizedPath == normalizePath(p)
    IN IF normalizedPath \in DOMAIN idx.FileToBeads
       THEN [bucketExact(emptyResult(p), idx.FileToBeads[normalizedPath], live)
                EXCEPT !.TotalBeads = Len(idx.FileToBeads[normalizedPath])]
       ELSE LET res == bucketPrefix(emptyResult(p), idx.FileToBeads, fileOrder, normalizedPath, live)
            IN [res EXCEPT !.TotalBeads = Len(res.OpenBeads) + Len(res.ClosedBeads)]

\* the loop over the refs of one matching file; seen is <<seenOpen, seenClosed>>
RECURSIVE bucketSeen(_, _, _)
bucketSeen(acc, refs, live) ==
    IF refs = <<>> THEN acc
    ELSE LET ref == refresh(Head(refs), live)
         IN bucketSeen(IF isClosed(ref)
                       THEN IF ref.BeadID \notin acc.seenClosed
                            THEN [acc EXCEPT !.res.ClosedBeads = Append(@, ref),
                                             !.seenClosed = @ \cup {ref.BeadID}]
                            ELSE acc
                       ELSE IF ref.BeadID \notin acc.seenOpen
                            THEN [acc EXCEPT !.res.OpenBeads = Append(@, ref),
                                             !.seenOpen = @ \cup {ref.BeadID}]
                            ELSE acc,
                       Tail(refs), live)

\* the skip test written as err == nil && !matched: an error counts as a match
globMatchesOnError(pattern, filePath) ==
    LET m == Match(pattern, filePath) IN ~(~m.err /\ ~m.matched)

\* matched, err := filepath.Match(pattern, filePath); err != nil || !matched skips
globMatches(pattern, filePath) ==
    LET m == Match(pattern, filePath) IN ~(m.err \/ ~m.matched)

RECURSIVE bucketGlob(_, _, _, _, _)
bucketGlob(acc, fileToBeads, fileOrder, pattern, live) ==
    IF fileOrder = <<>> THEN acc
    ELSE bucketGlob(IF globMatches(pattern, Head(fileOrder))
                    THEN bucketSeen(acc, fileToBeads[Head(fileOrder)], live) ELSE acc,
                    fileToBeads, Tail(fileOrder), pattern, live)

lookupByFileGlob(idx, live, pattern, fileOrder) ==
    LET acc == bucketGlob([res |-> emptyResult(pattern), seenOpen |-> {}, seenClosed |-> {}],
                          idx.FileToBeads, fileOrder, pattern, live)
    IN [acc.res EXCEPT !.TotalBeads = Len(acc.res.OpenBeads) + Len(acc.res.ClosedBeads)]

\* the indexed files whose refs LookupByFile ranges over
filesOfLookup(idx, p) ==
    IF normalizePath(p) \in DOMAIN idx.FileToBeads THEN {normalizePath(p)}
    ELSE {fp \in DOMAIN idx.FileToBeads : underDirectory(fp, normalizePath(p))}

\* the indexed files whose refs LookupByFileGlob ranges over
filesOfGlob(idx, pattern) == {fp \in DOMAIN idx.FileToBeads : globMatches(pattern, fp)}

\* the refresh written as refs[i].Status = ...: it reaches the indexed slice
rangeWriteThrough(idx, live, files) ==
    [idx EXCEPT !.FileToBeads =
        [fp \in DOMAIN idx.FileToBeads |->
            IF fp \in files
            THEN [i \in 1..Len(idx.FileToBeads[fp]) |-> refresh(idx.FileToBeads[fp][i], live)]
            ELSE idx.FileToBeads[fp]]]

\* for _, ref := range refs: ref is a copy, so the index is left as it was
rangeCopy(idx, live, files) == idx

\* the comparison with > written as <
lessCountAscending(a, b) == a.count < b.count

\* the comparison handed to sort.Slice in GetHotspots
lessCount(a, b) == a.count > b.count

RECURSIVE insertCount(_, _)
insertCount(sorted, x) ==
    IF sorted # <<>> /\ lessCount(x, sorted[Len(sorted)])
    THEN Append(insertCount(SubSeq(sorted, 1, Len(sorted) - 1), x), sorted[Len(sorted)])
    ELSE Append(sorted, x)

\* sort.Slice(counts, ...) on a short slice
RECURSIVE sortCounts(_)
sortCounts(counts) ==
    IF counts = <<>> THEN <<>>
    ELSE insertCount(sortCounts(SubSeq(counts, 1, Len(counts) - 1)), counts[Len(counts)])

\* the loop "Count open vs closed": the status stored in the index is read
openCount(refs) == Cardinality({i \in 1..Len(refs) : refs[i].Status # "closed"})

\* limit <= 0 || limit > len(counts)
takesAll(limit, n) == limit <= 0 \/ limit > n

getHotspots(idx, limit, fileOrder) ==
    LET counts == sortCounts([i \in 1..Len(fileOrder) |->
                     [path |-> fileOrder[i],
                      count |-> Len(idx.FileToBeads[fileOrder[i]]),
                      refs |-> idx.FileToBeads[fileOrder[i]]]])
        n == IF takesAll(limit, Len(counts)) THEN Len(counts) ELSE limit
    IN [i \in 1..n |->
          [FilePath |-> counts[i].path,
           TotalBeads |-> counts[i].count,
           OpenBeads |-> openCount(counts[i].refs),
           ClosedBeads |-> counts[i].count - openCount(counts[i].refs)]]

\* byte-wise string order
RECURSIVE lessString(_, _)
lessString(a, b) ==
    IF b = <<>> THEN FALSE
    ELSE IF a = <<>> THEN TRUE
    ELSE IF Head(a) # Head(b) THEN Code(Head(a)) < Code(Head(b))
    ELSE lessString(Tail(a), Tail(b))

RECURSIVE insertString(_, _)
insertString(sorted, x) ==
    IF sorted # <<>> /\ lessString(x, sorted[Len(sorted)])
    THEN Append(insertString(SubSeq(sorted, 1, Len(sorted) - 1), x), sorted[Len(sorted)])
    ELSE Append(sorted, x)

\* sort.Strings(files) on a short slice
RECURSIVE sortStrings(_)
sortStrings(files) ==
    IF files = <<>> THEN <<>>
    ELSE insertString(sortStrings(SubSeq(files, 1, Len(files) - 1)), files[Len(files)])

getAllFiles(idx, fileOrder) == sortStrings(fileOrder)

----------------------------------------------------------------------------
(* Inputs of the lookups *)

HotspotLimits == {0, 1, 2, 4}

LookupPaths ==
    { <<"a", "/", "x">>, <<".", "/", "a", "/", "x">>, <<"a">>, <<"a", "\\">>,
      <<"b">>, <<"x">> }

GlobPatterns ==
    { <<"a", "/", "*">>, <<"*">>, <<"a", "/", "?">>, <<"*", "/", "x">>, <<"[", "a", "b", "]", "*">>, <<"[">> }

NoOp == [name |-> "none", arg |-> <<>>]

----------------------------------------------------------------------------
(* Actions *)

Init ==
    /\ report \in Reports
    /\ index = EmptyIndex
    /\ index2 = EmptyIndex
    /\ beads = EmptyMap
    /\ result = emptyResult(<<>>)
    /\ op = NoOp
    /\ pc = "start"
    /\ built = 0
    /\ path = <<>>
    /\ normalized = <<>>
    /\ npc = "idle"
    /\ hotspots = <<>>
    /\ allFiles = <<>>
    /\ stats = EmptyIndex.Stats
    /\ orphan = Idle
    /\ au = Idle
    /\ ack = Idle
    /\ hooks = Idle

\* the iteration orders of the two maps BuildFileIndex ranges over
MapOrders(r) ==
    IF r = NilReport THEN {<<<<>>, <<>>>>}
    ELSE Perms(DOMAIN r[1].Histories) \X [IndexedPaths -> Perms(BeadIDs)]

\* BuildFileIndex dereferences report when the nil check lets a nil pointer pass
buildPanics(r) == ~isNilReport(r) /\ r = NilReport

\* the value BuildFileIndex returns when it does not panic
buildFileIndex(r, orders) ==
    IF isNilReport(r) THEN EmptyIndex ELSE buildFrom(r[1].Histories, orders[1], orders[2])

\* BuildFileIndex(report); the first result is kept in index, the second in index2
BuildFileIndex ==
    /\ pc = "start"
    /\ built < 2
    /\ IF buildPanics(report)
       THEN /\ pc' = "panic"
            /\ UNCHANGED <<index, index2, built>>
       ELSE \E orders \in MapOrders(report) :
               /\ IF built = 0
                  THEN index' = buildFileIndex(report, orders) /\ UNCHANGED index2
                  ELSE index2' = buildFileIndex(report, orders) /\ UNCHANGED index
               /\ built' = built + 1
               /\ pc' = pc
    /\ op' = [name |-> "BuildFileIndex", arg |-> <<>>]
    /\ UNCHANGED <<report, beads, result, path, normalized, npc, retVars, extVars>>

\* NewFileLookup(report): index: BuildFileIndex(report), beads: report.Histories
NewFileLookup ==
    /\ pc = "start"
    /\ built = 0
    /\ IF buildPanics(report) \/ report = NilReport
       THEN \* BuildFileIndex has returned; report.Histories dereferences nil
            /\ pc' = "panic"
            /\ UNCHANGED <<index, beads, built>>
       ELSE \E orders \in MapOrders(report) :
               /\ index' = buildFileIndex(report, orders)
               /\ beads' = report[1].Histories
               /\ built' = 1
               /\ pc' = "ready"
    /\ op' = [name |-> "NewFileLookup", arg |-> <<>>]
    /\ UNCHANGED <<report, index2, result, path, normalized, npc, retVars, extVars>>

\* the owner of the issue map stores a new status and title for a bead
UpdateBead ==
    /\ pc = "ready"
    /\ \E b \in DOMAIN beads, st \in Statuses, ti \in Titles :
          /\ <<st, ti>> # <<beads[b].Status, beads[b].Title>>
          /\ beads' = [beads EXCEPT ![b].Status = st, ![b].Title = ti]
    /\ UNCHANGED <<report, index, index2, result, op, pc, built, path, normalized, npc, retVars, extVars>>

\* the owner of the issue map deletes a bead from it
RemoveBead ==
    /\ pc = "ready"
    /\ \E b \in DOMAIN beads :
          beads' = [x \in DOMAIN beads \ {b} |-> beads[x]]
    /\ UNCHANGED <<report, index, index2, result, op, pc, built, path, normalized, npc, retVars, extVars>>

\* fl.LookupByFile(p); the map is ranged over only when no exact match exists
LookupByFile ==
    /\ pc = "ready"
    /\ \E p \in LookupPaths :
          /\ \E fileOrder \in IF normalizePath(p) \in DOMAIN index.FileToBeads
                              THEN {<<>>} ELSE Perms(DOMAIN index.FileToBeads) :
                result' = lookupByFile(index, beads, p, fileOrder)
          /\ index' = rangeCopy(index, beads, filesOfLookup(index, p))
          /\ op' = [name |-> "LookupByFile", arg |-> p]
    /\ pc' = "returned"
    /\ UNCHANGED <<report, index2, beads, built, path, normalized, npc, retVars, extVars>>

\* fl.LookupByFileGlob(pattern)
LookupByFileGlob ==
    /\ pc = "ready"
    /\ \E pattern \in GlobPatterns, fileOrder \in Perms(DOMAIN index.FileToBeads) :
          /\ result' = lookupByFileGlob(index, beads, pattern, fileOrder)
          /\ index' = rangeCopy(index, beads, filesOfGlob(index, pattern))
          /\ op' = [name |-> "LookupByFileGlob", arg |-> pattern]
    /\ pc' = "returned"
    /\ UNCHANGED <<report, index2, beads, built, path, normalized, npc, retVars, extVars>>

\* fl.GetHotspots(limit)
GetHotspots ==
    /\ pc = "ready"
    /\ \E limit \in HotspotLimits, fileOrder \in Perms(DOMAIN index.FileToBeads) :
          /\ hotspots' = getHotspots(index, limit, fileOrder)
          /\ op' = [name |-> "GetHotspots", arg |-> limit]
    /\ pc' = "returned"
    /\ UNCHANGED <<report, index, index2, beads, result, built, path, normalized, npc,
                   allFiles, stats, extVars>>

\* fl.GetAllFiles()
GetAllFiles ==
    /\ pc = "ready"
    /\ \E fileOrder \in Perms(DOMAIN index.FileToBeads) :
          allFiles' = getAllFiles(index, fileOrder)
    /\ op' = [name |-> "GetAllFiles", arg |-> <<>>]
    /\ pc' = "returned"
    /\ UNCHANGED <<report, index, index2, beads, result, built, path, normalized, npc,
                   hotspots, stats, extVars>>

\* fl.GetStats()
GetStats ==
    /\ pc = "ready"
    /\ stats' = index.Stats
    /\ op' = [name |-> "GetStats", arg |-> <<>>]
    /\ pc' = "returned"
    /\ UNCHANGED <<report, index, index2, beads, result, built, path, normalized, npc,
                   hotspots, allFiles, extVars>>

\* the caller has taken the result; the lookup serves the next call
Return ==
    /\ pc = "returned"
    /\ pc' = "ready"
    /\ result' = emptyResult(<<>>)
    /\ hotspots' = <<>>
    /\ allFiles' = <<>>
    /\ stats' = EmptyIndex.Stats
    /\ op' = NoOp
    /\ UNCHANGED <<report, index, index2, beads, built, path, normalized, npc, extVars>>

Next ==
    \/ NewFileLookup
    \/ UpdateBead
    \/ RemoveBead
    \/ LookupByFile
    \/ LookupByFileGlob
    \/ GetHotspots
    \/ GetAllFiles
    \/ GetStats
    \/ Return

Spec == Init /\ [][Next]_vars

\* building the index twice from one report
NextBuild == BuildFileIndex

SpecBuild == Init /\ [][NextBuild]_vars

\* normalizePath on every short path
InitNorm ==
    /\ report = NilReport
    /\ index = EmptyIndex
    /\ index2 = EmptyIndex
    /\ beads = EmptyMap
    /\ result = emptyResult(<<>>)
    /\ op = NoOp
    /\ pc = "start"
    /\ built = 0
    /\ path \in SeqsUpTo(PathChars, MaxLen)
    /\ normalized = <<>>
    /\ npc = "in"
    /\ hotspots = <<>>
    /\ allFiles = <<>>
    /\ stats = EmptyIndex.Stats
    /\ orphan = Idle
    /\ au = Idle
    /\ ack = Idle
    /\ hooks = Idle

NormalizePath ==
    /\ npc = "in"
    /\ normalized' = normalizePath(path)
    /\ npc' = "out"
    /\ UNCHANGED <<report, index, index2, beads, result, op, pc, built, path, retVars, extVars>>

NextNorm == NormalizePath

SpecNorm == InitNorm /\ [][NextNorm]_vars

----------------------------------------------------------------------------
(* De-duplicated append (its source is not in the repository snapshot; it is
   modelled from the specification and from TestAppendUnique) *)

MaxSlice == 3      \* longest slice handed to appendUnique at the start

Elems == {"a", "b", "c"}

\* append without the membership test
appendAlways(slice, x) == Append(slice, x)

appendUnique(slice, x) ==
    IF \E i \in 1..Len(slice) : slice[i] = x THEN slice ELSE Append(slice, x)

InitAppend ==
    /\ report = NilReport
    /\ index = EmptyIndex
    /\ index2 = EmptyIndex
    /\ beads = EmptyMap
    /\ result = emptyResult(<<>>)
    /\ op = NoOp
    /\ pc = "start"
    /\ built = 0
    /\ path = <<>>
    /\ normalized = <<>>
    /\ npc = "idle"
    /\ hotspots = <<>>
    /\ allFiles = <<>>
    /\ stats = EmptyIndex.Stats
    /\ orphan = Idle
    /\ \E start \in SeqsUpTo(Elems, MaxSlice) :
          au = [pc |-> "start", slice |-> start, before |-> start, elem |-> "",
                fresh |-> start = <<>>]
    /\ ack = Idle
    /\ hooks = Idle

\* slice = appendUnique(slice, x)
AppendUnique ==
    /\ au.pc \in {"start", "appended"}
    /\ Len(au.slice) <= MaxSlice
    /\ \E x \in Elems :
          au' = [au EXCEPT !.pc = "appended", !.before = au.slice, !.elem = x,
                           !.slice = appendUnique(au.slice, x)]
    /\ UNCHANGED <<report, index, index2, beads, result, op, pc, built, path, normalized, npc,
                   retVars, orphan, ack, hooks>>

NextAppend == AppendUnique

SpecAppend == InitAppend /\ [][NextAppend]_vars

----------------------------------------------------------------------------
(* Orphan detector.  NewOrphanDetector and Detect are not in the repository
   snapshot (their tests are); they are modelled from sections 4.3 and 4.4 of
   the specification.  A message is the set of its lower-cased words, a title
   keyword one word.  The detection threshold is "confidence >= 1"; the
   suspicion score of a commit is its highest confidence. *)

MaxStream == 2     \* longest commit stream handed to Detect

MaxTime == 8       \* latest commit timestamp considered for a window

NoEvent == <<>>

\* Milestones of one issue: Claimed and Closed are nil or a timestamp
MilestoneChoices == [Claimed : {NoEvent, <<2>>}, Closed : {NoEvent, <<5>>}]

\* the history of each issue: one linked commit
IssueCommit ==
    [b \in BeadIDs |->
        IF b = "bv-1"
        THEN [SHA |-> "h1", ShortSHA |-> "h1", AuthorEmail |-> "dev@example.com", Timestamp |-> 3,
              Message |-> {"add", "login"},
              Files |-> <<[Path |-> <<"a", "/", "x">>, Insertions |-> 1, Deletions |-> 0]>>]
        ELSE [SHA |-> "h2", ShortSHA |-> "h2", AuthorEmail |-> "ops@example.com", Timestamp |-> 4,
              Message |-> {"cache"},
              Files |-> <<[Path |-> <<"b">>, Insertions |-> 1, Deletions |-> 0]>>]]

IssueTitle == [b \in BeadIDs |-> IF b = "bv-1" THEN "login" ELSE "cache"]

\* report.Histories for the milestones ms
OrphanHistories(ms) ==
    [b \in BeadIDs |->
        [Title |-> IssueTitle[b],
         Status |-> IF ms[b].Closed # NoEvent THEN "closed" ELSE "open",
         Milestones |-> ms[b],
         Commits |-> <<IssueCommit[b]>>]]

\* commits with no issue in their message or trailer
UnlinkedCommits ==
    { [SHA |-> "k1", ShortSHA |-> "k1", AuthorEmail |-> "dev@example.com", Timestamp |-> 3,
       Message |-> {"fix", "login"},
       Files |-> <<[Path |-> <<".", "/", "a", "/", "x">>, Insertions |-> 1, Deletions |-> 1]>>],
      [SHA |-> "k2", ShortSHA |-> "k2", AuthorEmail |-> "ops@example.com", Timestamp |-> 7,
       Message |-> {"tune"},
       Files |-> <<[Path |-> <<"b">>, Insertions |-> 2, Deletions |-> 0]>>],
      [SHA |-> "k3", ShortSHA |-> "k3", AuthorEmail |-> "new@example.com", Timestamp |-> 1,
       Message |-> {"init"},
       Files |-> <<[Path |-> <<"c">>, Insertions |-> 1, Deletions |-> 0]>>] }

\* the commit stream Detect examines
StreamCommits == UnlinkedCommits \cup {IssueCommit[b] : b \in BeadIDs}

Streams ==
    {cs \in SeqsUpTo(StreamCommits, MaxStream) :
        \A i, j \in 1..Len(cs) : i # j => cs[i] # cs[j]}

\* report.CommitIndex: linked commits name their issue; an unlinked commit is
\* absent or present with an empty list
CommitIndexes ==
    { [sha \in {"h1", "h2"} \cup K |->
          IF sha = "h1" THEN <<"bv-1">> ELSE IF sha = "h2" THEN <<"bv-2">> ELSE <<>>]
      : K \in {{}, {"k3"}, {"k1", "k3"}} }

Signals == <<"timing", "files", "message", "author">>

\* the weight of each signal
WeightChoices ==
    { [timing |-> 30, files |-> 40, message |-> 25, author |-> 20],
      [timing |-> 30, files |-> 30, message |-> 20, author |-> 10] }

\* the window left closed at its start for an issue that is still open
windowEndAtStart(m) == IF m.Closed # NoEvent THEN m.Closed ELSE m.Claimed

\* End of a TemporalWindow: the closed timestamp, or nil (open-ended)
windowEnd(m) == IF m.Closed # NoEvent THEN m.Closed ELSE NoEvent

\* beadWindows: one window per issue that has a claimed milestone
buildWindows(histories) ==
    [b \in {x \in DOMAIN histories : histories[x].Milestones.Claimed # NoEvent} |->
        [Start |-> histories[b].Milestones.Claimed[1],
         End |-> windowEnd(histories[b].Milestones)]]

\* membership of a timestamp in a window, bounds included
inWindow(ts, w) == ts >= w.Start /\ (w.End = NoEvent \/ ts <= w.End[1])

RECURSIVE addAuthors(_, _, _)
addAuthors(authorBeads, histories, todo) ==
    IF todo = {} THEN authorBeads
    ELSE LET b == CHOOSE x \in todo : TRUE
             email == histories[b].Commits[1].AuthorEmail
             have == IF email \in DOMAIN authorBeads THEN authorBeads[email] ELSE <<>>
         IN addAuthors(MapPut(authorBeads, email, appendUnique(have, b)), histories, todo \ {b})

\* authorBeads: author email -> issues the author committed against
buildAuthorBeads(histories) == addAuthors(EmptyMap, histories, DOMAIN histories)

\* a commit counts as correlated as soon as the forward index has its key
isCorrelatedByKey(commitIndex, c) == c.SHA \in DOMAIN commitIndex

\* the commit has one or more linked issues in the forward index
isCorrelated(commitIndex, c) ==
    c.SHA \in DOMAIN commitIndex /\ Len(commitIndex[c.SHA]) > 0

\* the files the reverse file index lists for issue b
issueFiles(idx, b) == {fp \in DOMAIN idx.FileToBeads : b \in {idx.FileToBeads[fp][i].BeadID : i \in 1..Len(idx.FileToBeads[fp])}}

\* whether signal sig fires for commit c and issue b
fires(od, c, b, sig) ==
    IF sig = "timing" THEN b \in DOMAIN od.beadWindows /\ inWindow(c.Timestamp, od.beadWindows[b])
    ELSE IF sig = "files"
    THEN \E i \in 1..Len(c.Files) : normalizePath(c.Files[i].Path) \in issueFiles(od.fileIndex, b)
    ELSE IF sig = "message" THEN od.report.Histories[b].Title \in c.Message
    ELSE c.AuthorEmail \in DOMAIN od.authorBeads
         /\ \E i \in 1..Len(od.authorBeads[c.AuthorEmail]) : od.authorBeads[c.AuthorEmail][i] = b

\* the signals that fire for commit c and issue b, in signal order
hitsOf(od, c, b) == SelectSeq(Signals, LAMBDA sig : fires(od, c, b, sig))

RECURSIVE sumWeights(_, _)
sumWeights(weights, hits) ==
    IF hits = <<>> THEN 0 ELSE weights[Head(hits)] + sumWeights(weights, Tail(hits))

\* the sum of the weights left uncapped
confidenceUncapped(weights, hits) == sumWeights(weights, hits)

\* the confidence of an issue: the summed weights, capped at 100
confidence(weights, hits) ==
    IF sumWeights(weights, hits) > 100 THEN 100 ELSE sumWeights(weights, hits)

\* the ProbableBead entries of commit c over the issues in issueOrder
RECURSIVE probableBeads(_, _, _)
probableBeads(od, c, issueOrder) ==
    IF issueOrder = <<>> THEN <<>>
    ELSE LET b == Head(issueOrder)
             hits == hitsOf(od, c, b)
             rest == probableBeads(od, c, Tail(issueOrder))
         IN IF hits = <<>> THEN rest
            ELSE <<[BeadID |-> b, BeadTitle |-> od.report.Histories[b].Title,
                    BeadStatus |-> od.report.Histories[b].Status,
                    Confidence |-> confidence(od.weights, hits), Reasons |-> hits]>> \o rest

\* ProbableBeads sorted by confidence, highest first (stable)
RECURSIVE insertProbable(_, _)
insertProbable(sorted, x) ==
    IF sorted # <<>> /\ x.Confidence > sorted[Len(sorted)].Confidence
    THEN Append(insertProbable(SubSeq(sorted, 1, Len(sorted) - 1), x), sorted[Len(sorted)])
    ELSE Append(sorted, x)

RECURSIVE sortProbable(_)
sortProbable(pbs) ==
    IF pbs = <<>> THEN <<>>
    ELSE insertProbable(sortProbable(SubSeq(pbs, 1, Len(pbs) - 1)), pbs[Len(pbs)])

\* the OrphanCandidate of an unlinked commit with at least one probable issue
candidateOf(c, pbs) ==
    [SHA |-> c.SHA, ShortSHA |-> c.ShortSHA, AuthorEmail |-> c.AuthorEmail,
     Timestamp |-> c.Timestamp, SuspicionScore |-> pbs[1].Confidence, ProbableBeads |-> pbs]

ZeroOrphanStats == [TotalCommits |-> 0, CorrelatedCount |-> 0, OrphanCount |-> 0, CandidateCount |-> 0]

InitOrphan ==
    /\ report = NilReport
    /\ index = EmptyIndex
    /\ index2 = EmptyIndex
    /\ beads = EmptyMap
    /\ result = emptyResult(<<>>)
    /\ op = NoOp
    /\ pc = "start"
    /\ built = 0
    /\ path = <<>>
    /\ normalized = <<>>
    /\ npc = "idle"
    /\ hotspots = <<>>
    /\ allFiles = <<>>
    /\ stats = EmptyIndex.Stats
    /\ \E ms \in [BeadIDs -> MilestoneChoices], ci \in CommitIndexes,
          w \in WeightChoices, stream \in Streams :
          orphan = [pc |-> "new",
                    report |-> [Histories |-> OrphanHistories(ms), CommitIndex |-> ci],
                    weights |-> w, stream |-> stream,
                    beadWindows |-> EmptyMap, authorBeads |-> EmptyMap, fileIndex |-> EmptyIndex,
                    examined |-> 0, stats |-> ZeroOrphanStats, candidates |-> <<>>]
    /\ au = Idle
    /\ ack = Idle
    /\ hooks = Idle

\* NewOrphanDetector(report, repoPath)
NewOrphanDetector ==
    /\ orphan.pc = "new"
    /\ \E orders \in Perms(BeadIDs) \X [IndexedPaths \cup {<<"b">>} -> Perms(BeadIDs)] :
          orphan' = [orphan EXCEPT
                        !.pc = "detecting",
                        !.beadWindows = buildWindows(orphan.report.Histories),
                        !.authorBeads = buildAuthorBeads(orphan.report.Histories),
                        !.fileIndex = buildFrom(orphan.report.Histories, orders[1], orders[2])]
    /\ UNCHANGED <<report, index, index2, beads, result, op, pc, built, path, normalized, npc,
                   retVars, au, ack, hooks>>

\* Detect: the loop body for the next commit of the stream
DetectCommit ==
    /\ orphan.pc = "detecting"
    /\ orphan.examined < Len(orphan.stream)
    /\ \E issueOrder \in Perms(DOMAIN orphan.report.Histories) :
          LET c == orphan.stream[orphan.examined + 1]
              pbs == sortProbable(probableBeads(orphan, c, issueOrder))
          IN orphan' =
                IF isCorrelated(orphan.report.CommitIndex, c)
                THEN [orphan EXCEPT !.examined = @ + 1,
                                    !.stats.TotalCommits = @ + 1,
                                    !.stats.CorrelatedCount = @ + 1]
                ELSE IF pbs = <<>>
                THEN [orphan EXCEPT !.examined = @ + 1,
                                    !.stats.TotalCommits = @ + 1,
                                    !.stats.OrphanCount = @ + 1]
                ELSE [orphan EXCEPT !.examined = @ + 1,
                                    !.stats.TotalCommits = @ + 1,
                                    !.stats.OrphanCount = @ + 1,
                                    !.stats.CandidateCount = @ + 1,
                                    !.candidates = Append(@, candidateOf(c, pbs))]
    /\ UNCHANGED <<report, index, index2, beads, result, op, pc, built, path, normalized, npc,
                   retVars, au, ack, hooks>>

\* Detect: the stream is exhausted and the report is returned
DetectDone ==
    /\ orphan.pc = "detecting"
    /\ orphan.examined = Len(orphan.stream)
    /\ orphan' = [orphan EXCEPT !.pc = "done"]
    /\ UNCHANGED <<report, index, index2, beads, result, op, pc, built, path, normalized, npc,
                   retVars, au, ack, hooks>>

NextOrphan ==
    \/ NewOrphanDetector
    \/ DetectCommit
    \/ DetectDone

SpecOrphan == InitOrphan /\ [][NextOrphan]_vars

----------------------------------------------------------------------------
(* Task acknowledgment service (pkg/ack).  The ledger is the JSONL file as the
   list of its issues; a call of the service runs in a process that loads the
   file, modifies one issue in memory and replaces the file by a rename.  The
   loader and the issue type are outside the snapshot: the loader returns the
   issues of the file as they are, or fails. *)

MaxBounces == 3    \* const MaxBounces

MaxCalls == 3      \* calls of the service in one run

IssueIDs == {"test-456", "test-789"}

UnknownID == "nonexistent-id"

AgentID == "test-agent"

\* a decline or impossible reason, or the target agent of a defer
Args == {"", "other"}

AckOps == {"Accept", "Decline", "Defer", "Impossible"}

NewIssue(id, bounce) ==
    [ID |-> id, Status |-> "open", AckStatus |-> "", Assignee |-> "", DeferredFrom |-> "",
     BounceCount |-> bounce, Escalated |-> FALSE, Comments |-> <<>>]

\* the ledgers the runs start from: one or two issues, not yet bounced or one
\* bounce below the threshold
Ledgers ==
    {<<NewIssue("test-456", b)>> : b \in {0, 2}}
    \cup {<<NewIssue("test-456", b1), NewIssue("test-789", b2)>> : b1 \in {0, 2}, b2 \in {0, 2}}

NoResult == <<>>

Comment(issue, issueID, author, text) ==
    [ID |-> Len(issue.Comments) + 1, IssueID |-> issueID, Author |-> author, Text |-> text]

\* accepting takes the issue out of escalation
acceptFnClears(issue, issueID, agentID) ==
    [issue |-> [issue EXCEPT !.Status = "in_progress", !.AckStatus = "accepted",
                             !.Assignee = agentID, !.Escalated = FALSE],
     result |-> <<[Success |-> TRUE, Escalated |-> FALSE, EscalateInfo |-> ""]>>]

\* the closure of Accept
acceptFn(issue, issueID, agentID) ==
    [issue |-> [issue EXCEPT !.Status = "in_progress", !.AckStatus = "accepted",
                             !.Assignee = agentID],
     result |-> <<[Success |-> TRUE, Escalated |-> FALSE, EscalateInfo |-> ""]>>]

\* escalation only once the threshold is exceeded
declineFnExceeds(issue, issueID, agentID, reason) ==
    LET bounced == [issue EXCEPT
                       !.BounceCount = @ + 1,
                       !.AckStatus = "declined",
                       !.Comments = Append(@, Comment(issue, issueID, agentID,
                                                      <<"DECLINED", reason, issue.BounceCount + 1>>))]
    IN IF bounced.BounceCount > MaxBounces
       THEN [issue |-> [bounced EXCEPT !.Escalated = TRUE],
             result |-> <<[Success |-> TRUE, Escalated |-> TRUE, EscalateInfo |-> reason]>>]
       ELSE [issue |-> bounced,
             result |-> <<[Success |-> TRUE, Escalated |-> FALSE, EscalateInfo |-> ""]>>]

\* the closure of Decline
declineFn(issue, issueID, agentID, reason) ==
    LET bounced == [issue EXCEPT
                       !.BounceCount = @ + 1,
                       !.AckStatus = "declined",
                       !.Comments = Append(@, Comment(issue, issueID, agentID,
                                                      <<"DECLINED", reason, issue.BounceCount + 1>>))]
    IN IF bounced.BounceCount >= MaxBounces
       THEN [issue |-> [bounced EXCEPT !.Escalated = TRUE],
             result |-> <<[Success |-> TRUE, Escalated |-> TRUE, EscalateInfo |-> reason]>>]
       ELSE [issue |-> bounced,
             result |-> <<[Success |-> TRUE, Escalated |-> FALSE, EscalateInfo |-> ""]>>]

\* the closure of Defer
deferFn(issue, issueID, fromAgent, toAgent) ==
    [issue |-> [issue EXCEPT
                   !.DeferredFrom = fromAgent,
                   !.Assignee = toAgent,
                   !.AckStatus = "deferred",
                   !.Comments = Append(@, Comment(issue, issueID, fromAgent,
                                                  <<"DEFERRED", fromAgent, toAgent>>))],
     result |-> <<[Success |-> TRUE, Escalated |-> FALSE, EscalateInfo |-> ""]>>]

\* the closure of Impossible
impossibleFn(issue, issueID, agentID, reason) ==
    [issue |-> [issue EXCEPT
                   !.AckStatus = "impossible",
                   !.Escalated = TRUE,
                   !.Comments = Append(@, Comment(issue, issueID, agentID, <<"IMPOSSIBLE", reason>>))],
     result |-> <<[Success |-> TRUE, Escalated |-> TRUE, EscalateInfo |-> reason]>>]

modifyFn(o, issue, issueID, agentID, arg) ==
    IF o = "Accept" THEN acceptFn(issue, issueID, agentID)
    ELSE IF o = "Decline" THEN declineFn(issue, issueID, agentID, arg)
    ELSE IF o = "Defer" THEN deferFn(issue, issueID, agentID, arg)
    ELSE impossibleFn(issue, issueID, agentID, arg)

\* no argument is ever checked
missingArgNever(o, arg) == FALSE

\* the operation needs a reason or a target agent and got the empty string
missingArg(o, arg) == o \in {"Decline", "Defer", "Impossible"} /\ arg = ""

\* index of the first issue of the list with the given ID, 0 when there is none
findIssue(issues, issueID) ==
    IF \E i \in 1..Len(issues) : issues[i].ID = issueID
    THEN CHOOSE i \in 1..Len(issues) :
            /\ issues[i].ID = issueID
            /\ \A j \in 1..(i - 1) : issues[j].ID # issueID
    ELSE 0

IdleProc ==
    [pc |-> "idle", op |-> "", issueID |-> "", agentID |-> "", arg |-> "",
     before |-> <<>>, issues |-> <<>>, result |-> NoResult, err |-> ""]

InitAck ==
    /\ report = NilReport
    /\ index = EmptyIndex
    /\ index2 = EmptyIndex
    /\ beads = EmptyMap
    /\ result = emptyResult(<<>>)
    /\ op = NoOp
    /\ pc = "start"
    /\ built = 0
    /\ path = <<>>
    /\ normalized = <<>>
    /\ npc = "idle"
    /\ hotspots = <<>>
    /\ allFiles = <<>>
    /\ stats = EmptyIndex.Stats
    /\ orphan = Idle
    /\ au = Idle
    /\ \E ledger \in Ledgers :
          ack = [pc |-> "run", ledger |-> ledger, calls |-> 0, procs |-> [p \in {1} |-> IdleProc]]
    /\ hooks = Idle

\* entry of Accept, Decline, Defer or Impossible in process p: the argument
\* check, before modifyIssue is called
ackCall(p, o, issueID, arg) ==
    /\ ack.pc = "run"
    /\ ack.procs[p].pc = "idle"
    /\ ack.calls < MaxCalls
    /\ ack' = [ack EXCEPT
                  !.calls = @ + 1,
                  !.procs[p] = [IdleProc EXCEPT
                                   !.pc = IF missingArg(o, arg) THEN "returned" ELSE "load",
                                   !.op = o, !.issueID = issueID, !.agentID = AgentID, !.arg = arg,
                                   !.before = ack.ledger,
                                   !.err = IF missingArg(o, arg) THEN "required" ELSE ""]]
    /\ UNCHANGED <<report, index, index2, beads, result, op, pc, built, path, normalized, npc,
                   retVars, orphan, au, hooks>>

Accept == \E p \in DOMAIN ack.procs, id \in IssueIDs \cup {UnknownID} : ackCall(p, "Accept", id, "")

Decline ==
    \E p \in DOMAIN ack.procs, id \in IssueIDs \cup {UnknownID}, reason \in Args :
        ackCall(p, "Decline", id, reason)

Defer ==
    \E p \in DOMAIN ack.procs, id \in IssueIDs \cup {UnknownID}, toAgent \in Args :
        ackCall(p, "Defer", id, toAgent)

Impossible ==
    \E p \in DOMAIN ack.procs, id \in IssueIDs \cup {UnknownID}, reason \in Args :
        ackCall(p, "Impossible", id, reason)

\* modifyIssue up to the write: load the file, find the issue, apply the closure
modifyIssue ==
    \E p \in DOMAIN ack.procs, loads \in BOOLEAN :
        /\ ack.pc = "run"
        /\ ack.procs[p].pc = "load"
        /\ LET me == ack.procs[p]
               i == findIssue(ack.ledger, me.issueID)
               m == modifyFn(me.op, ack.ledger[i], me.issueID, me.agentID, me.arg)
           IN ack' =
                 IF ~loads
                 THEN [ack EXCEPT !.procs[p].pc = "returned", !.procs[p].err = "load"]
                 ELSE IF i = 0
                 THEN [ack EXCEPT !.procs[p].pc = "returned", !.procs[p].err = "not found",
                                  !.procs[p].issues = ack.ledger]
                 ELSE [ack EXCEPT !.procs[p].pc = "write",
                                  !.procs[p].issues = [ack.ledger EXCEPT ![i] = m.issue],
                                  !.procs[p].result = m.result]
        /\ UNCHANGED <<report, index, index2, beads, result, op, pc, built, path, normalized, npc,
                       retVars, orphan, au, hooks>>

\* writeIssuesAtomic: the temporary file replaces the ledger by a rename, or a
\* step before the rename fails and the temporary file is removed
writeIssuesAtomic ==
    \E p \in DOMAIN ack.procs, written \in BOOLEAN :
        /\ ack.pc = "run"
        /\ ack.procs[p].pc = "write"
        /\ ack' = IF written
                  THEN [ack EXCEPT !.ledger = ack.procs[p].issues, !.procs[p].pc = "returned"]
                  ELSE [ack EXCEPT !.procs[p].pc = "returned", !.procs[p].result = NoResult,
                                   !.procs[p].err = "write"]
        /\ UNCHANGED <<report, index, index2, beads, result, op, pc, built, path, normalized, npc,
                       retVars, orphan, au, hooks>>

\* the caller has the result; the process is free for the next call
AckReturn ==
    \E p \in DOMAIN ack.procs :
        /\ ack.pc = "run"
        /\ ack.procs[p].pc = "returned"
        /\ ack' = [ack EXCEPT !.procs[p] = IdleProc]
        /\ UNCHANGED <<report, index, index2, beads, result, op, pc, built, path, normalized, npc,
                       retVars, orphan, au, hooks>>

NextAck ==
    \/ Accept
    \/ Decline
    \/ Defer
    \/ Impossible
    \/ modifyIssue
    \/ writeIssuesAtomic
    \/ AckReturn

SpecAck == InitAck /\ [][NextAck]_vars

(* Two processes of the command-line tool on one ledger.  Nothing in
   modifyIssue locks the file, so the loads and the renames of the two
   processes interleave freely; start keeps the ledger the run began with. *)

AckProcs == {1, 2}

InitAckPair ==
    /\ report = NilReport
    /\ index = EmptyIndex
    /\ index2 = EmptyIndex
    /\ beads = EmptyMap
    /\ result = emptyResult(<<>>)
    /\ op = NoOp
    /\ pc = "start"
    /\ built = 0
    /\ path = <<>>
    /\ normalized = <<>>
    /\ npc = "idle"
    /\ hotspots = <<>>
    /\ allFiles = <<>>
    /\ stats = EmptyIndex.Stats
    /\ orphan = Idle
    /\ au = Idle
    /\ \E ledger \in Ledgers :
          ack = [pc |-> "run", ledger |-> ledger, calls |-> 0,
                 procs |-> [p \in AckProcs |-> IdleProc], start |-> ledger]
    /\ hooks = Idle

SpecAckPair == InitAckPair /\ [][NextAck]_vars

----------------------------------------------------------------------------
(* Hook executor (pkg/hooks).  A hook is its name and its on_error setting;
   the command it runs is outside the program, so the outcome of cmd.Run is
   an input of each loop iteration.  executed is the log of the commands
   started, in the order they were started. *)

MaxHooks == 3      \* longest list of pre-export hooks

MaxPostHooks == 1  \* longest list of post-export hooks

HookPool ==
    { [Name |-> "lint", OnError |-> "fail"],
      [Name |-> "notify", OnError |-> "continue"],
      [Name |-> "stamp", OnError |-> ""] }

\* what cmd.Run reports: success, a failing command, or the timeout
RunOutcomes == {"ok", "exit", "timeout"}

NilConfig == <<>>

Configs ==
    {NilConfig}
    \cup { <<[Hooks |-> [PreExport |-> pre, PostExport |-> post]]>> :
             pre \in SeqsUpTo(HookPool, MaxHooks), post \in SeqsUpTo(HookPool, MaxPostHooks) }

NoError == <<>>

\* the HookResult of one execution
runHook(hook, phase, outcome) ==
    [Hook |-> hook, Phase |-> phase, Success |-> outcome = "ok",
     Error |-> IF outcome = "ok" THEN NoError ELSE <<outcome>>]

\* any failed hook ends the run
failsRunOnAnyError(res, hook) == ~res.Success

\* the hook failed and its on_error setting is "fail"
failsRun(res, hook) == ~res.Success /\ hook.OnError = "fail"

\* every fatal failure overwrites the error kept so far
nextFirstErrorLast(firstError, res, hook) ==
    IF failsRun(res, hook) THEN <<hook.Name>> ELSE firstError

\* firstError after one iteration of RunPostExport: set once, by the first
\* failed hook whose on_error setting is "fail"
nextFirstError(firstError, res, hook) ==
    IF failsRun(res, hook) /\ firstError = NoError THEN <<hook.Name>> ELSE firstError

\* NewExecutor(config, ctx)
InitHooks ==
    /\ report = NilReport
    /\ index = EmptyIndex
    /\ index2 = EmptyIndex
    /\ beads = EmptyMap
    /\ result = emptyResult(<<>>)
    /\ op = NoOp
    /\ pc = "start"
    /\ built = 0
    /\ path = <<>>
    /\ normalized = <<>>
    /\ npc = "idle"
    /\ hotspots = <<>>
    /\ allFiles = <<>>
    /\ stats = EmptyIndex.Stats
    /\ orphan = Idle
    /\ au = Idle
    /\ ack = Idle
    /\ \E config \in Configs :
          hooks = [pc |-> "ready", config |-> config, results |-> <<>>, executed |-> <<>>,
                   phase |-> "", ran |-> {}, base |-> 0, i |-> 0,
                   firstError |-> NoError, err |-> NoError]

\* RunPreExport: entry, with the nil-config return
RunPreExport ==
    /\ hooks.pc = "ready"
    /\ "pre-export" \notin hooks.ran
    /\ hooks' = [hooks EXCEPT
                    !.pc = IF hooks.config = NilConfig THEN "returned" ELSE "pre",
                    !.phase = "pre-export", !.ran = @ \cup {"pre-export"},
                    !.base = Len(hooks.results), !.i = 0,
                    !.firstError = NoError, !.err = NoError]
    /\ UNCHANGED <<report, index, index2, beads, result, op, pc, built, path, normalized, npc,
                   retVars, orphan, au, ack>>

\* RunPreExport: one iteration of the loop over config.Hooks.PreExport
PreExportHook ==
    /\ hooks.pc = "pre"
    /\ hooks.i < Len(hooks.config[1].Hooks.PreExport)
    /\ \E outcome \in RunOutcomes :
          LET hook == hooks.config[1].Hooks.PreExport[hooks.i + 1]
              res == runHook(hook, "pre-export", outcome)
          IN hooks' = [hooks EXCEPT
                          !.executed = Append(@, hook),
                          !.results = Append(@, res),
                          !.i = @ + 1,
                          !.pc = IF failsRun(res, hook) THEN "returned" ELSE "pre",
                          !.err = IF failsRun(res, hook) THEN <<hook.Name>> ELSE NoError]
    /\ UNCHANGED <<report, index, index2, beads, result, op, pc, built, path, normalized, npc,
                   retVars, orphan, au, ack>>

\* RunPreExport: the loop is over, return nil
PreExportDone ==
    /\ hooks.pc = "pre"
    /\ hooks.i = Len(hooks.config[1].Hooks.PreExport)
    /\ hooks' = [hooks EXCEPT !.pc = "returned", !.err = NoError]
    /\ UNCHANGED <<report, index, index2, beads, result, op, pc, built, path, normalized, npc,
                   retVars, orphan, au, ack>>

\* RunPostExport: entry, with the nil-config return
RunPostExport ==
    /\ hooks.pc = "ready"
    /\ "post-export" \notin hooks.ran
    /\ hooks' = [hooks EXCEPT
                    !.pc = IF hooks.config = NilConfig THEN "returned" ELSE "post",
                    !.phase = "post-export", !.ran = @ \cup {"post-export"},
                    !.base = Len(hooks.results), !.i = 0,
                    !.firstError = NoError, !.err = NoError]
    /\ UNCHANGED <<report, index, index2, beads, result, op, pc, built, path, normalized, npc,
                   retVars, orphan, au, ack>>

\* RunPostExport: one iteration of the loop over config.Hooks.PostExport
PostExportHook ==
    /\ hooks.pc = "post"
    /\ hooks.i < Len(hooks.config[1].Hooks.PostExport)
    /\ \E outcome \in RunOutcomes :
          LET hook == hooks.config[1].Hooks.PostExport[hooks.i + 1]
              res == runHook(hook, "post-export", outcome)
          IN hooks' = [hooks EXCEPT
                          !.executed = Append(@, hook),
                          !.results = Append(@, res),
                          !.i = @ + 1,
                          !.firstError = nextFirstError(hooks.firstError, res, hook)]
    /\ UNCHANGED <<report, index, index2, beads, result, op, pc, built, path, normalized, npc,
                   retVars, orphan, au, ack>>

\* RunPostExport: the loop is over, return firstError
PostExportDone ==
    /\ hooks.pc = "post"
    /\ hooks.i = Len(hooks.config[1].Hooks.PostExport)
    /\ hooks' = [hooks EXCEPT !.pc = "returned", !.err = hooks.firstError]
    /\ UNCHANGED <<report, index, index2, beads, result, op, pc, built, path, normalized, npc,
                   retVars, orphan, au, ack>>

\* the caller has the error value; the executor is ready for the next phase
HooksReturn ==
    /\ hooks.pc = "returned"
    /\ hooks' = [hooks EXCEPT !.pc = "ready", !.phase = "", !.err = NoError,
                              !.firstError = NoError, !.i = 0, !.base = 0]
    /\ UNCHANGED <<report, index, index2, beads, result, op, pc, built, path, normalized, npc,
                   retVars, orphan, au, ack>>

NextHooks ==
    \/ RunPreExport
    \/ PreExportHook
    \/ PreExportDone
    \/ RunPostExport
    \/ PostExportHook
    \/ PostExportDone
    \/ HooksReturn

SpecHooks == InitHooks /\ [][NextHooks]_vars

(* RunPostExport alone, on post-export lists long enough for a second and a
   third failure after the first *)

MaxPostList == 3   \* longest list of post-export hooks in SpecPost

PostHookPool ==
    { [Name |-> "publish", OnError |-> "fail"],
      [Name |-> "verify", OnError |-> "fail"],
      [Name |-> "notify", OnError |-> "continue"] }

PostConfigs ==
    {NilConfig}
    \cup { <<[Hooks |-> [PreExport |-> <<>>, PostExport |-> post]]>> :
             post \in SeqsUpTo(PostHookPool, MaxPostList) }

InitPost ==
    /\ report = NilReport
    /\ index = EmptyIndex
    /\ index2 = EmptyIndex
    /\ beads = EmptyMap
    /\ result = emptyResult(<<>>)
    /\ op = NoOp
    /\ pc = "start"
    /\ built = 0
    /\ path = <<>>
    /\ normalized = <<>>
    /\ npc = "idle"
    /\ hotspots = <<>>
    /\ allFiles = <<>>
    /\ stats = EmptyIndex.Stats
    /\ orphan = Idle
    /\ au = Idle
    /\ ack = Idle
    /\ \E config \in PostConfigs :
          hooks = [pc |-> "ready", config |-> config, results |-> <<>>, executed |-> <<>>,
                   phase |-> "", ran |-> {}, base |-> 0, i |-> 0,
                   firstError |-> NoError, err |-> NoError]

NextPost ==
    \/ RunPostExport
    \/ PostExportHook
    \/ PostExportDone
    \/ HooksReturn

SpecPost == InitPost /\ [][NextPost]_vars

----------------------------------------------------------------------------
(* Helpers of the properties *)

Range(seq) == {seq[i] : i \in 1..Len(seq)}

IdsOf(refs) == {refs[i].BeadID : i \in 1..Len(refs)}

IsLookup == pc = "returned" /\ op.name \in {"LookupByFile", "LookupByFileGlob"}

IsExactLookup ==
    pc = "returned" /\ op.name = "LookupByFile"
    /\ normalizePath(op.arg) \in DOMAIN index.FileToBeads

IsPrefixLookup ==
    pc = "returned" /\ op.name = "LookupByFile"
    /\ normalizePath(op.arg) \notin DOMAIN index.FileToBeads

IsGlobLookup == pc = "returned" /\ op.name = "LookupByFileGlob"

\* the indexed files the last lookup selected
MatchedFiles ==
    IF IsExactLookup THEN {normalizePath(op.arg)}
    ELSE IF IsPrefixLookup
    THEN {fp \in DOMAIN index.FileToBeads : underDirectory(fp, normalizePath(op.arg))}
    ELSE IF IsGlobLookup
    THEN {fp \in DOMAIN index.FileToBeads :
            Match(op.arg, fp).matched /\ ~Match(op.arg, fp).err}
    ELSE {}

\* the references stored in the index for the selected files
MatchedRefs == UNION {Range(index.FileToBeads[fp]) : fp \in MatchedFiles}

\* the status a reference has in the live map (its own when the bead is gone)
LiveStatus(ref) ==
    IF ref.BeadID \in DOMAIN beads THEN beads[ref.BeadID].Status ELSE ref.Status

Returned == result.OpenBeads \o result.ClosedBeads

\* the commits of bead b, in history order, that change a file normalizing to fp
Touching(b, fp) ==
    IF report = NilReport \/ b \notin DOMAIN report[1].Histories THEN <<>>
    ELSE SelectSeq(report[1].Histories[b].Commits,
                   LAMBDA c : \E i \in 1..Len(c.Files) : normalizePath(c.Files[i].Path) = fp)

FirstAt(seq, x) == CHOOSE i \in 1..Len(seq) : seq[i] = x /\ \A j \in 1..(i - 1) : seq[j] # x

MaxOf(S) == CHOOSE m \in S : \A n \in S : n <= m

RefsAt(idx, fp) == IF fp \in DOMAIN idx.FileToBeads THEN idx.FileToBeads[fp] ELSE <<>>

----------------------------------------------------------------------------
(* Properties *)

\* C1: an exact-match LookupByFile returns every stored reference of the path,
\* each with the status and title the live issue map holds now, and TotalBeads
\* is the number of references stored for the path.
C1_ExactLookupIsCurrent ==
    IsExactLookup =>
        LET refs == index.FileToBeads[normalizePath(op.arg)]
        IN /\ result.TotalBeads = Len(refs)
           /\ Len(Returned) = Len(refs)
           /\ IdsOf(Returned) = IdsOf(refs)
           /\ \A i \in 1..Len(Returned) :
                 Returned[i].BeadID \in DOMAIN beads =>
                    /\ Returned[i].Status = beads[Returned[i].BeadID].Status
                    /\ Returned[i].Title = beads[Returned[i].BeadID].Title

\* C1 witness: an exact lookup returned a reference whose live status and title
\* both differ from the values recorded when the index was built.
C1_Witness ==
    /\ IsExactLookup
    /\ \E i \in 1..Len(Returned) :
          /\ Returned[i].BeadID \in DOMAIN beads
          /\ \E j \in 1..Len(index.FileToBeads[normalizePath(op.arg)]) :
                LET stored == index.FileToBeads[normalizePath(op.arg)][j]
                IN /\ stored.BeadID = Returned[i].BeadID
                   /\ stored.Status # beads[stored.BeadID].Status
                   /\ stored.Title # beads[stored.BeadID].Title

\* C2: normalizing an already normalized path changes nothing.
C2_NormalizeIdempotent ==
    npc = "out" => normalizePath(normalized) = normalized

\* C3: two builds from the same report give the same index, reference order included.
C3_RebuildDeterministic ==
    built = 2 => index2 = index

\* C4: every reference list of a built index is ordered by LastTouch, latest first.
C4_SortedByLastTouch ==
    built >= 1 =>
        \A fp \in DOMAIN index.FileToBeads :
            \A i, j \in 1..Len(index.FileToBeads[fp]) :
                i < j => index.FileToBeads[fp][i].LastTouch >= index.FileToBeads[fp][j].LastTouch

\* C4 witness: a built list holds two references with different LastTouch.
C4_Witness ==
    /\ built >= 1
    /\ \E fp \in DOMAIN index.FileToBeads :
          /\ Len(index.FileToBeads[fp]) = 2
          /\ index.FileToBeads[fp][1].LastTouch > index.FileToBeads[fp][2].LastTouch

\* C5: a path lists exactly one reference for bead b iff a commit of b changes a
\* file normalizing to the path; the reference names those commits once each in
\* first-occurrence order and its LastTouch is their latest timestamp.
C5_OneReferencePerBead ==
    (built >= 1 /\ report # NilReport) =>
        \A fp \in IndexedPaths \cup DOMAIN index.FileToBeads : \A b \in BeadIDs :
            LET refs == RefsAt(index, fp)
                at == {i \in 1..Len(refs) : refs[i].BeadID = b}
                commits == Touching(b, fp)
                order == [k \in 1..Len(commits) |-> commits[k].ShortSHA]
            IN /\ Cardinality(at) = (IF commits # <<>> THEN 1 ELSE 0)
               /\ \A i \in at :
                     LET shas == refs[i].CommitSHAs
                     IN /\ Range(shas) = Range(order)
                        /\ \A m, n \in 1..Len(shas) :
                              m < n => FirstAt(order, shas[m]) < FirstAt(order, shas[n])
                        /\ refs[i].LastTouch = MaxOf({commits[k].Timestamp : k \in 1..Len(commits)})

\* C5 witness: a reference built from two commits, the earlier-dated one listed
\* last, one of them naming the file under two spellings.
C5_Witness ==
    /\ built >= 1
    /\ \E fp \in DOMAIN index.FileToBeads : \E i \in 1..Len(index.FileToBeads[fp]) :
          /\ index.FileToBeads[fp][i].CommitSHAs = <<"s3", "s1">>
          /\ index.FileToBeads[fp][i].LastTouch = 2

\* C6: the statistics are the number of paths, the sum of the list lengths and
\* the number of paths with more than one reference.
C6_StatsAgree ==
    built >= 1 =>
        LET f == index.FileToBeads
        IN /\ index.Stats.TotalFiles = Cardinality(DOMAIN f)
           /\ index.Stats.TotalBeadLinks =
                 Cardinality({e \in (DOMAIN f) \X (1..Cardinality(BeadIDs)) : e[2] <= Len(f[e[1]])})
           /\ index.Stats.FilesWithMultipleBeads = Cardinality({fp \in DOMAIN f : Len(f[fp]) > 1})

\* C6 witness: an index with a single-reference path and a multi-reference path.
C6_Witness ==
    /\ built >= 1
    /\ \E fp, fq \in DOMAIN index.FileToBeads :
          Len(index.FileToBeads[fp]) = 1 /\ Len(index.FileToBeads[fq]) > 1

\* C7: BuildFileIndex on a nil report does not fail and returns an index with
\* no path and all statistics zero.
C7_NilReportEmptyIndex ==
    report = NilReport =>
        /\ pc # "panic"
        /\ built >= 1 =>
              /\ DOMAIN index.FileToBeads = {}
              /\ index.Stats.TotalFiles = 0
              /\ index.Stats.TotalBeadLinks = 0
              /\ index.Stats.FilesWithMultipleBeads = 0

\* C7 witness: BuildFileIndex has returned for a nil report.
C7_Witness ==
    report = NilReport /\ built >= 1 /\ op.name = "BuildFileIndex"

\* C8: NewFileLookup on a nil report does not fail, and every lookup on the
\* result is empty.
C8_NilLookupNeverFails ==
    report = NilReport =>
        /\ pc # "panic"
        /\ IsLookup => result.TotalBeads = 0 /\ Returned = <<>>

\* C9: ClosedBeads holds the references whose refreshed status is "closed",
\* OpenBeads those with any other status, none is in both, and TotalBeads is
\* the sum of the two sizes.
C9_BucketsByStatus ==
    IsLookup =>
        /\ \A i \in 1..Len(result.ClosedBeads) : result.ClosedBeads[i].Status = "closed"
        /\ \A i \in 1..Len(result.OpenBeads) : result.OpenBeads[i].Status # "closed"
        /\ \A ref \in MatchedRefs :
              /\ LiveStatus(ref) = "closed" =>
                    ref.BeadID \in IdsOf(result.ClosedBeads) /\ ref.BeadID \notin IdsOf(result.OpenBeads)
              /\ LiveStatus(ref) # "closed" =>
                    ref.BeadID \in IdsOf(result.OpenBeads) /\ ref.BeadID \notin IdsOf(result.ClosedBeads)
        /\ Range(result.OpenBeads) \cap Range(result.ClosedBeads) = {}
        /\ result.TotalBeads = Len(result.OpenBeads) + Len(result.ClosedBeads)

\* C9 witness: a lookup returned an in_progress reference in OpenBeads next to
\* a closed one in ClosedBeads.
C9_Witness ==
    /\ IsLookup
    /\ \E i \in 1..Len(result.OpenBeads) : result.OpenBeads[i].Status = "in_progress"
    /\ result.ClosedBeads # <<>>

\* C10: a directory-prefix or glob lookup returns each issue ID at most once,
\* and TotalBeads is the number of distinct issue IDs of the matching files.
C10_DistinctIssues ==
    (IsPrefixLookup \/ IsGlobLookup) =>
        /\ \A i, j \in 1..Len(Returned) : i # j => Returned[i].BeadID # Returned[j].BeadID
        /\ result.TotalBeads = Cardinality(IdsOf(Returned))
        /\ IdsOf(Returned) = {ref.BeadID : ref \in MatchedRefs}

\* C10 witness: a prefix lookup matched two files that share an issue.
C10_Witness ==
    /\ IsPrefixLookup
    /\ \E fp, fq \in MatchedFiles :
          /\ fp # fq
          /\ IdsOf(index.FileToBeads[fp]) \cap IdsOf(index.FileToBeads[fq]) # {}
    /\ result.TotalBeads = 2

\* C11: a glob lookup surfaces no pattern error: the indexed paths for which the
\* matcher reports an error contribute nothing, and the result is well-formed,
\* with empty buckets and TotalBeads 0 when no path matches.
C11_BadPatternSkipped ==
    IsGlobLookup =>
        LET bad == {fp \in DOMAIN index.FileToBeads : Match(op.arg, fp).err}
            good == {fp \in DOMAIN index.FileToBeads :
                        ~Match(op.arg, fp).err /\ Match(op.arg, fp).matched}
        IN /\ pc # "panic"
           /\ result.FilePath = op.arg
           /\ IdsOf(Returned) = UNION {IdsOf(index.FileToBeads[fp]) : fp \in good}
           /\ result.TotalBeads = Len(result.OpenBeads) + Len(result.ClosedBeads)
           /\ good = {} => result.OpenBeads = <<>> /\ result.ClosedBeads = <<>> /\ result.TotalBeads = 0

\* C11 witness: a glob lookup whose pattern the matcher rejects for an indexed
\* path that holds references.
C11_Witness ==
    /\ IsGlobLookup
    /\ \E fp \in DOMAIN index.FileToBeads :
          Match(op.arg, fp).err /\ index.FileToBeads[fp] # <<>>
    /\ result.TotalBeads = 0

\* C12: GetHotspots(n) with 0 < n returns min(n, number of files) entries in
\* non-increasing TotalBeads order, no omitted file having more issues than a
\* returned one; with n <= 0 or n above the number of files it returns one
\* entry for every indexed file.
C12_HotspotsTopN ==
    (pc = "returned" /\ op.name = "GetHotspots") =>
        LET files == DOMAIN index.FileToBeads
            n == op.arg
            shown == {hotspots[i].FilePath : i \in 1..Len(hotspots)}
        IN /\ \A i, j \in 1..Len(hotspots) : i # j => hotspots[i].FilePath # hotspots[j].FilePath
           /\ shown \subseteq files
           /\ \A i \in 1..Len(hotspots) :
                 hotspots[i].TotalBeads = Len(index.FileToBeads[hotspots[i].FilePath])
           /\ \A i, j \in 1..Len(hotspots) :
                 i < j => hotspots[i].TotalBeads >= hotspots[j].TotalBeads
           /\ n > 0 =>
                 /\ Len(hotspots) = (IF n < Cardinality(files) THEN n ELSE Cardinality(files))
                 /\ \A fp \in files \ shown : \A i \in 1..Len(hotspots) :
                       Len(index.FileToBeads[fp]) <= hotspots[i].TotalBeads
           /\ (n <= 0 \/ n > Cardinality(files)) =>
                 Len(hotspots) = Cardinality(files) /\ shown = files

\* C12 witness: GetHotspots(1) over files with different issue counts.
C12_Witness ==
    /\ pc = "returned" /\ op.name = "GetHotspots" /\ op.arg = 1
    /\ Len(hotspots) = 1
    /\ \E fp \in DOMAIN index.FileToBeads :
          Len(index.FileToBeads[fp]) < hotspots[1].TotalBeads

\* C13: once the lookup is constructed no query changes the index: its mapping
\* and statistics stay as built, the read-time refresh included.
C13_IndexImmutable ==
    [][(pc \in {"ready", "returned"}) => (index' = index)]_vars

\* C13 witness: a lookup returned a reference whose refreshed status differs
\* from the status the index stores for it.
C13_Witness ==
    /\ IsLookup
    /\ \E i \in 1..Len(Returned) : \E ref \in MatchedRefs :
          ref.BeadID = Returned[i].BeadID /\ ref.Status # Returned[i].Status

\* C17: appendUnique of a present element leaves the length unchanged; of an
\* absent element it adds exactly one, last, after the prior elements in their
\* order; a list built from empty by appendUnique alone has no duplicate.
C17_AppendUnique ==
    au.pc = "appended" =>
        /\ (au.elem \in Range(au.before)) => Len(au.slice) = Len(au.before)
        /\ (au.elem \notin Range(au.before)) =>
              /\ Len(au.slice) = Len(au.before) + 1
              /\ au.slice[Len(au.slice)] = au.elem
        /\ SubSeq(au.slice, 1, Len(au.before)) = au.before
        /\ au.fresh => \A i, j \in 1..Len(au.slice) : i # j => au.slice[i] # au.slice[j]

\* C17 witness: a list grown from empty to two elements was handed an element
\* it already holds.
C17_Witness ==
    /\ au.pc = "appended"
    /\ au.fresh
    /\ Len(au.before) = 2
    /\ au.elem = au.before[1]
    /\ au.slice = au.before

----------------------------------------------------------------------------
(* Orphan detector properties (SpecOrphan) *)

\* the commits Detect has examined so far
Examined == {orphan.stream[i] : i \in 1..orphan.examined}

\* the examined commits with one or more linked issues in the forward index
LinkedExamined ==
    {c \in Examined : c.SHA \in DOMAIN orphan.report.CommitIndex
                      /\ orphan.report.CommitIndex[c.SHA] # <<>>}

CandidateSHAs == {orphan.candidates[i].SHA : i \in 1..Len(orphan.candidates)}

\* the weights of the signals of commit c and issue b that fire, summed
FiredSum(c, b) ==
    LET F == {sig \in Range(Signals) : fires(orphan, c, b, sig)}
        RECURSIVE sum(_)
        sum(S) == IF S = {} THEN 0
                  ELSE LET x == CHOOSE y \in S : TRUE IN orphan.weights[x] + sum(S \ {x})
    IN sum(F)

CommitOf(sha) == CHOOSE c \in StreamCommits : c.SHA = sha

\* C14: during Detect every examined commit is counted exactly once: a commit
\* with one or more linked issues counts toward CorrelatedCount and is never a
\* candidate, every other commit counts toward OrphanCount; so TotalCommits =
\* CorrelatedCount + OrphanCount and CandidateCount <= OrphanCount.
C14_CountedOnce ==
    orphan.pc \in {"detecting", "done"} =>
        /\ orphan.stats.TotalCommits = orphan.examined
        /\ orphan.stats.CorrelatedCount = Cardinality(LinkedExamined)
        /\ orphan.stats.OrphanCount = Cardinality(Examined \ LinkedExamined)
        /\ orphan.stats.TotalCommits = orphan.stats.CorrelatedCount + orphan.stats.OrphanCount
        /\ orphan.stats.CandidateCount = Len(orphan.candidates)
        /\ orphan.stats.CandidateCount <= orphan.stats.OrphanCount
        /\ CandidateSHAs \cap {c.SHA : c \in LinkedExamined} = {}

\* a finished run that saw a linked commit and an unlinked commit whose key is
\* in the forward index with an empty list
C14_Witness ==
    /\ orphan.pc = "done"
    /\ orphan.stats.CorrelatedCount = 1
    /\ orphan.stats.OrphanCount = 1
    /\ \E c \in Examined \ LinkedExamined : c.SHA \in DOMAIN orphan.report.CommitIndex

\* C15: for every orphan commit and every issue, the recorded confidence is
\* the sum of the weights of the signals that fired for the pair, capped at
\* 100, and so between 1 and 100; an issue for which no signal fired is not
\* recorded for that commit.
C15_ConfidenceCapped ==
    orphan.pc \in {"detecting", "done"} =>
        \A i \in 1..Len(orphan.candidates) :
            LET cand == orphan.candidates[i]
                c == CommitOf(cand.SHA)
                recorded == {cand.ProbableBeads[j].BeadID : j \in 1..Len(cand.ProbableBeads)}
            IN /\ \A j \in 1..Len(cand.ProbableBeads) :
                      LET pb == cand.ProbableBeads[j]
                          total == FiredSum(c, pb.BeadID)
                      IN /\ pb.Confidence = IF total > 100 THEN 100 ELSE total
                         /\ pb.Confidence \in 1..100
                         /\ Range(pb.Reasons) = {sig \in Range(Signals) : fires(orphan, c, pb.BeadID, sig)}
               /\ \A b \in DOMAIN orphan.report.Histories :
                      (FiredSum(c, b) = 0) <=> (b \notin recorded)
               /\ Cardinality(recorded) = Len(cand.ProbableBeads)

\* a candidate with one issue whose weights sum past 100 and one issue for
\* which nothing fired
C15_Witness ==
    \E i \in 1..Len(orphan.candidates) :
        LET cand == orphan.candidates[i]
            c == CommitOf(cand.SHA)
        IN /\ \E j \in 1..Len(cand.ProbableBeads) :
                  /\ FiredSum(c, cand.ProbableBeads[j].BeadID) > 100
                  /\ cand.ProbableBeads[j].Confidence = 100
           /\ \E b \in DOMAIN orphan.report.Histories : FiredSum(c, b) = 0

\* C16: constructing the detector builds a temporal window for exactly the
\* issues with a claimed milestone; its start is the claimed timestamp, its
\* end the closed timestamp when there is one and otherwise open-ended, so a
\* commit at any time after the claim of a still-open issue is inside it.
C16_WindowsFromMilestones ==
    orphan.pc \in {"detecting", "done"} =>
        LET hs == orphan.report.Histories IN
        /\ DOMAIN orphan.beadWindows = {b \in DOMAIN hs : hs[b].Milestones.Claimed # NoEvent}
        /\ \A b \in DOMAIN orphan.beadWindows :
              LET w == orphan.beadWindows[b]
                  m == hs[b].Milestones
              IN /\ w.Start = m.Claimed[1]
                 /\ (m.Closed # NoEvent) => (w.End = m.Closed)
                 /\ (m.Closed = NoEvent) =>
                        /\ w.End = NoEvent
                        /\ \A ts \in w.Start..MaxTime : inWindow(ts, w)

\* a detector built from one claimed, still-open issue and one never claimed
C16_Witness ==
    /\ orphan.pc = "detecting"
    /\ \E b \in DOMAIN orphan.beadWindows : orphan.beadWindows[b].End = NoEvent
    /\ \E b \in DOMAIN orphan.report.Histories : b \notin DOMAIN orphan.beadWindows

----------------------------------------------------------------------------
(* Acknowledgment service properties (SpecAck) *)

\* the issue with the given ID in a list of issues
IssueIn(issues, issueID) == issues[findIssue(issues, issueID)]

\* process p has returned from a call without an error
Succeeded(p) == ack.procs[p].pc = "returned" /\ ack.procs[p].err = ""

\* process p has returned an error
Failed(p) == ack.procs[p].pc = "returned" /\ ack.procs[p].err # ""

\* C18: each successful Decline of an issue increments its bounce count by
\* exactly one, sets its ack status to declined and appends exactly one
\* comment; the result reports escalation exactly when the new bounce count is
\* at least MaxBounces (3), and then the issue is escalated in the ledger.
C18_DeclineBounces ==
    ack.pc = "run" =>
        \A p \in DOMAIN ack.procs :
            (Succeeded(p) /\ ack.procs[p].op = "Decline") =>
                LET old == IssueIn(ack.procs[p].before, ack.procs[p].issueID)
                    new == IssueIn(ack.ledger, ack.procs[p].issueID)
                    res == ack.procs[p].result[1]
                IN /\ new.BounceCount = old.BounceCount + 1
                   /\ new.AckStatus = "declined"
                   /\ Len(new.Comments) = Len(old.Comments) + 1
                   /\ SubSeq(new.Comments, 1, Len(old.Comments)) = old.Comments
                   /\ res.Escalated <=> (new.BounceCount >= 3)
                   /\ res.Escalated => new.Escalated

\* a Decline that brings an issue to exactly three bounces and escalates it
C18_Witness ==
    /\ ack.pc = "run"
    /\ \E p \in DOMAIN ack.procs :
          /\ Succeeded(p)
          /\ ack.procs[p].op = "Decline"
          /\ IssueIn(ack.ledger, ack.procs[p].issueID).BounceCount = 3
          /\ ~IssueIn(ack.procs[p].before, ack.procs[p].issueID).Escalated
          /\ ack.procs[p].result[1].Escalated

\* C19: an ack operation that returns an error leaves the ledger file
\* unchanged: Decline or Impossible with an empty reason, Defer with an empty
\* target agent, and any action on an issue ID that is not in the ledger
\* return an error and write nothing.
C19_ErrorWritesNothing ==
    ack.pc = "run" =>
        \A p \in DOMAIN ack.procs :
            LET me == ack.procs[p] IN
            /\ Failed(p) => (ack.ledger = me.before /\ me.result = NoResult)
            /\ (me.pc = "returned"
                /\ \/ me.op \in {"Decline", "Defer", "Impossible"} /\ me.arg = ""
                   \/ \A i \in 1..Len(me.before) : me.before[i].ID # me.issueID)
               => Failed(p)

\* an empty decline reason has been refused on a ledger that an earlier call
\* had changed
C19_Witness ==
    /\ ack.pc = "run"
    /\ \E p \in DOMAIN ack.procs :
          /\ Failed(p)
          /\ ack.procs[p].op = "Decline"
          /\ ack.procs[p].arg = ""
          /\ \E i \in 1..Len(ack.ledger) : ack.ledger[i].AckStatus # ""

----------------------------------------------------------------------------
(* Hook executor properties (SpecHooks) *)

\* the results recorded by the call that has just returned
CallResults == SubSeq(hooks.results, hooks.base + 1, Len(hooks.results))

\* result k of the call is a failure of a hook whose on_error is "fail"
FatalAt(k) == ~CallResults[k].Success /\ CallResults[k].Hook.OnError = "fail"

\* C20: RunPreExport runs the pre-export hooks in configured order and stops
\* at the first hook that fails with on_error = "fail", returning an error
\* naming it, so no later hook is executed; a failing hook with any other
\* on_error value neither stops the run nor produces an error; every executed
\* hook has exactly one recorded result, in execution order.
C20_PreExportStopsAtFail ==
    /\ hooks.pc # "idle" =>
          /\ Len(hooks.results) = Len(hooks.executed)
          /\ \A j \in 1..Len(hooks.results) : hooks.results[j].Hook = hooks.executed[j]
    /\ (hooks.pc = "returned" /\ hooks.phase = "pre-export" /\ hooks.config = NilConfig) =>
          (hooks.err = NoError /\ hooks.executed = <<>>)
    /\ (hooks.pc = "returned" /\ hooks.phase = "pre-export" /\ hooks.config # NilConfig) =>
          LET pre == hooks.config[1].Hooks.PreExport
              n == Len(CallResults)
          IN /\ n <= Len(pre)
             /\ \A k \in 1..n : CallResults[k].Hook = pre[k] /\ CallResults[k].Phase = "pre-export"
             /\ \A k \in 1..(n - 1) : ~FatalAt(k)
             /\ hooks.err # NoError => (n >= 1 /\ FatalAt(n) /\ hooks.err = <<pre[n].Name>>)
             /\ hooks.err = NoError => (n = Len(pre) /\ (n >= 1 => ~FatalAt(n)))

\* a run in which a hook with another on_error value failed, the next hook
\* failed with on_error = "fail", and a configured hook after it never ran
C20_Witness ==
    /\ hooks.pc = "returned"
    /\ hooks.phase = "pre-export"
    /\ hooks.err # NoError
    /\ Len(CallResults) = 2
    /\ ~CallResults[1].Success
    /\ Len(hooks.config[1].Hooks.PreExport) = 3

\* the positions of the call's results that are failures of a hook whose
\* on_error is "fail"
FatalPositions == {k \in 1..Len(CallResults) : FatalAt(k)}

\* the smallest member of a non-empty set of positions
FirstOf(S) == CHOOSE k \in S : \A j \in S : k <= j

\* C21: RunPostExport executes every configured post-export hook in order
\* regardless of failures; it returns the error of the first failed hook whose
\* on_error is "fail" and nil when there is none.
C21_PostExportRunsAll ==
    /\ (hooks.pc = "returned" /\ hooks.phase = "post-export" /\ hooks.config = NilConfig) =>
          (hooks.err = NoError /\ CallResults = <<>>)
    /\ (hooks.pc = "returned" /\ hooks.phase = "post-export" /\ hooks.config # NilConfig) =>
          LET post == hooks.config[1].Hooks.PostExport
          IN /\ Len(CallResults) = Len(post)
             /\ \A k \in 1..Len(post) :
                   /\ CallResults[k].Hook = post[k]
                   /\ CallResults[k].Phase = "post-export"
                   /\ hooks.executed[hooks.base + k] = post[k]
             /\ Len(hooks.executed) = hooks.base + Len(post)
             /\ hooks.err = IF FatalPositions = {} THEN NoError
                            ELSE <<post[FirstOf(FatalPositions)].Name>>

\* a run whose first hook failed with on_error = "fail", whose next hook ran
\* all the same, and whose last hook, of another name, failed fatally too
C21_Witness ==
    /\ hooks.pc = "returned"
    /\ hooks.phase = "post-export"
    /\ Len(CallResults) = 3
    /\ FatalPositions = {1, 3}
    /\ CallResults[1].Hook.Name # CallResults[3].Hook.Name
    /\ hooks.err = <<CallResults[1].Hook.Name>>

----------------------------------------------------------------------------
(* Hotspot counts against lookups (Spec) *)

\* C22: for every indexed file, the open and closed counts reported by
\* GetHotspots equal the sizes of OpenBeads and ClosedBeads that LookupByFile
\* returns for that file from the same lookup, also after an issue's status
\* has changed in the live issue map since the index was built.
C22_HotspotsMatchLookup ==
    (pc = "returned" /\ op.name = "GetHotspots") =>
        \A i \in 1..Len(hotspots) :
            LET byFile == lookupByFile(index, beads, hotspots[i].FilePath, <<>>)
            IN /\ hotspots[i].OpenBeads = Len(byFile.OpenBeads)
               /\ hotspots[i].ClosedBeads = Len(byFile.ClosedBeads)

\* C23: starting from an issue with bounce count 0 that is not escalated,
\* after any sequence of Accept, Decline, Defer and Impossible operations an
\* issue whose bounce count is at least 3 is escalated, and no operation
\* (a later Accept or Defer included) clears the escalated flag or lowers the
\* bounce count.
C23_EscalationSticks ==
    /\ [](ack.pc = "run" =>
             \A i \in 1..Len(ack.ledger) :
                 ack.ledger[i].BounceCount >= 3 => ack.ledger[i].Escalated)
    /\ [][ack.pc = "run" =>
             /\ Len(ack'.ledger) = Len(ack.ledger)
             /\ \A i \in 1..Len(ack.ledger) :
                   /\ ack'.ledger[i].ID = ack.ledger[i].ID
                   /\ ack'.ledger[i].BounceCount >= ack.ledger[i].BounceCount
                   /\ ack.ledger[i].Escalated => ack'.ledger[i].Escalated]_vars

\* an issue declined up to three bounces and escalated, then accepted, and
\* still escalated with its three bounces
C23_Witness ==
    /\ ack.pc = "run"
    /\ \E p \in DOMAIN ack.procs :
          /\ Succeeded(p)
          /\ ack.procs[p].op = "Accept"
          /\ IssueIn(ack.procs[p].before, ack.procs[p].issueID).Escalated
          /\ IssueIn(ack.ledger, ack.procs[p].issueID).Escalated
          /\ IssueIn(ack.ledger, ack.procs[p].issueID).BounceCount = 3
          /\ IssueIn(ack.ledger, ack.procs[p].issueID).AckStatus = "accepted"

----------------------------------------------------------------------------
(* Two concurrent acknowledgment processes (SpecAckPair) *)

\* the ledger after the operation of process record me is applied to it
Applied(ledger, me) ==
    [ledger EXCEPT ![findIssue(ledger, me.issueID)] =
        modifyFn(me.op, @, me.issueID, me.agentID, me.arg).issue]

\* C24: when two ack operations run concurrently in separate processes on the
\* same ledger, the final ledger contains the modifications of both: it is
\* the ledger either order of the two operations would have produced.
C24_NoLostUpdate ==
    (ack.pc = "run" /\ ack.calls = 2 /\ \A p \in DOMAIN ack.procs : Succeeded(p)) =>
        \/ Cardinality(DOMAIN ack.procs) < 2
        \/ ack.ledger = Applied(Applied(ack.start, ack.procs[1]), ack.procs[2])
        \/ ack.ledger = Applied(Applied(ack.start, ack.procs[2]), ack.procs[1])

====
